---- MODULE Spec2Model ----
(***************************************************************************)
(* Model of scripts/run_evaluation.py: the three score calculations        *)
(* (calc_DSC, calc_Sensitivity, calc_Specificity), the overlay compositor  *)
(* (overlay_segmentation) and the module-level run-evaluation loop.        *)
(*                                                                         *)
(* Arrays are records [shape, data]; data maps every index tuple of the    *)
(* shape to the element.  A float64 is a record [kind, num, den]: a        *)
(* finite value is the reduced fraction num/den, and "nan" / "inf" are the *)
(* IEEE results numpy produces for a zero divisor.                         *)
(***************************************************************************)
EXTENDS Integers, Sequences, FiniteSets, TLC

VARIABLES
    truth, pred, classes,         \* arguments of the score calculations
    dsc, sens, specs,             \* their results (run_evaluation.py:169-173)
    called,                       \* score calculations applied so far
    vol, seg,                     \* arguments of overlay_segmentation
    vol_greyscale, vol_overlayed, \* its intermediate and its result
    overlayed,                    \* overlay_segmentation has returned
    files,                        \* sample identifiers present under "data"
    sample_list, it, index,       \* list, for-loop iterator, loop variable
    loaded, stdout, gifs,         \* samples loaded, lines printed, GIFs written
    pc                            \* position in the module-level script

vars == <<truth, pred, classes, dsc, sens, specs, called,
          vol, seg, vol_greyscale, vol_overlayed, overlayed,
          files, sample_list, it, index, loaded, stdout, gifs, pc>>

metricVars  == <<truth, pred, classes, dsc, sens, specs, called>>
overlayVars == <<vol, seg, vol_greyscale, vol_overlayed, overlayed>>
runVars     == <<files, sample_list, it, index, loaded, stdout, gifs, pc>>

----------------------------------------------------------------------------
(* Bounds of the model                                                     *)

MaxVoxels == 2
MaxLabel == 2
MaxClasses == 3
MaxOverlayVoxels == 2
MaxIntensity == 2
MaxSegLabel == 4
MaxSamples == 3
MaxRunVoxels == 1

(* Program constants                                                       *)

RunClasses == 4
AlphaTenths == 3
UInt8Max == 255

----------------------------------------------------------------------------
(* Arrays                                                                  *)

Shapes(n) == {s \in (1..n) \X (1..n) \X (1..n) : s[1] * s[2] * s[3] <= n}

Indices3(shp) == (1..shp[1]) \X (1..shp[2]) \X (1..shp[3])

Indices4(shp) == (1..shp[1]) \X (1..shp[2]) \X (1..shp[3]) \X (1..shp[4])

VolumesOf(shp, values) ==
    {[shape |-> shp, data |-> d] : d \in [Indices3(shp) -> values]}

IdleVolume == [shape |-> <<1, 1, 1>>, data |-> [v \in Indices3(<<1, 1, 1>>) |-> 0]]

IdleRGB == [shape |-> <<1, 1, 1, 3>>, data |-> [v \in Indices4(<<1, 1, 1, 3>>) |-> 0]]

Sum(arr) == Cardinality({v \in DOMAIN arr.data : arr.data[v]})

equal(arr, x) == [shape |-> arr.shape, data |-> [v \in DOMAIN arr.data |-> arr.data[v] = x]]

logical_not(a) == [shape |-> a.shape, data |-> [v \in DOMAIN a.data |-> ~a.data[v]]]

logical_and(a, b) ==
    [shape |-> a.shape, data |-> [v \in DOMAIN a.data |-> a.data[v] /\ b.data[v]]]

----------------------------------------------------------------------------
(* float64 values and numpy's true division                                *)

RECURSIVE GCD(_, _)
GCD(a, b) == IF b = 0 THEN a ELSE GCD(b, a % b)

NaN == [kind |-> "nan", num |-> 0, den |-> 0]

Inf == [kind |-> "inf", num |-> 1, den |-> 0]

Float(a, b) == [kind |-> "finite", num |-> a \div GCD(a, b), den |-> b \div GCD(a, b)]

Zero == Float(0, 1)

One == Float(1, 1)

\* numpy.int64 / numpy.int64: a zero divisor gives nan or inf (with a
\* RuntimeWarning); no exception is raised.
true_divide(a, b) ==
    IF b = 0 THEN (IF a = 0 THEN NaN ELSE Inf) ELSE Float(a, b)

\* Whether evaluating a / b raises ZeroDivisionError.  Both operands are
\* numpy.int64 scalars returned by ndarray.sum(), whose division never raises.
RaisesZeroDivisionError(a, b) == FALSE

----------------------------------------------------------------------------
(* Score calculations (run_evaluation.py:97-140)                           *)

\* DiceOf without the factor 2 of the numerator.
DiceOf_Unscaled(t, p, i) ==
    LET gt == equal(t, i)
        pd == equal(p, i)
    IN  true_divide(Sum(logical_and(pd, gt)), Sum(pd) + Sum(gt))

\* One pass of the loop body of calc_DSC for class i: the value appended.
DiceOf(t, p, i) ==
    LET gt == equal(t, i)
        pd == equal(p, i)
        n  == 2 * Sum(logical_and(pd, gt))
        d  == Sum(pd) + Sum(gt)
    IN  IF RaisesZeroDivisionError(n, d) THEN Zero ELSE true_divide(n, d)

RECURSIVE DSC_loop(_, _, _, _, _)
DSC_loop(t, p, n, i, dice_scores) ==
    IF i >= n THEN dice_scores
    ELSE DSC_loop(t, p, n, i + 1, Append(dice_scores, DiceOf(t, p, i)))

calc_DSC(t, p, n) == DSC_loop(t, p, n, 0, <<>>)

\* One pass of the loop body of calc_Sensitivity for class i.
SensOf(t, p, i) ==
    LET gt == equal(t, i)
        pd == equal(p, i)
        n  == Sum(logical_and(pd, gt))
        d  == Sum(gt)
    IN  IF RaisesZeroDivisionError(n, d) THEN Zero ELSE true_divide(n, d)

RECURSIVE Sensitivity_loop(_, _, _, _, _)
Sensitivity_loop(t, p, n, i, sens_scores) ==
    IF i >= n THEN sens_scores
    ELSE Sensitivity_loop(t, p, n, i + 1, Append(sens_scores, SensOf(t, p, i)))

calc_Sensitivity(t, p, n) == Sensitivity_loop(t, p, n, 0, <<>>)

\* One pass of the loop body of calc_Specificity for class i.
SpecOf(t, p, i) ==
    LET not_gt == logical_not(equal(t, i))
        not_pd == logical_not(equal(p, i))
        n      == Sum(logical_and(not_pd, not_gt))
        d      == Sum(not_gt)
    IN  IF RaisesZeroDivisionError(n, d) THEN Zero ELSE true_divide(n, d)

RECURSIVE Specificity_loop(_, _, _, _, _)
Specificity_loop(t, p, n, i, spec_scores) ==
    IF i >= n THEN spec_scores
    ELSE Specificity_loop(t, p, n, i + 1, Append(spec_scores, SpecOf(t, p, i)))

calc_Specificity(t, p, n) == Specificity_loop(t, p, n, 0, <<>>)

----------------------------------------------------------------------------
(* Idle values of the parts of the state a specification does not use      *)

IdleMetrics ==
    /\ truth = IdleVolume /\ pred = IdleVolume /\ classes = 0
    /\ dsc = <<>> /\ sens = <<>> /\ specs = <<>> /\ called = {}

IdleOverlay ==
    /\ vol = IdleVolume /\ seg = IdleVolume
    /\ vol_greyscale = IdleVolume /\ vol_overlayed = IdleRGB
    /\ overlayed = FALSE

IdleRun ==
    /\ files = {} /\ sample_list = <<>> /\ it = 0 /\ index = 0
    /\ loaded = <<>> /\ stdout = <<>> /\ gifs = {} /\ pc = "idle"

----------------------------------------------------------------------------
(* Specification of the score calculations: the arguments are drawn from   *)
(* all pairs of equally shaped label volumes and all class counts, and     *)
(* each function is applied to them.                                       *)

Labels == 0..MaxLabel

InitMetrics ==
    /\ \E shp \in Shapes(MaxVoxels) :
          /\ truth \in VolumesOf(shp, Labels)
          /\ pred \in VolumesOf(shp, Labels)
    /\ classes \in 1..MaxClasses
    /\ dsc = <<>> /\ sens = <<>> /\ specs = <<>> /\ called = {}
    /\ IdleOverlay /\ IdleRun

CallDSC ==
    /\ "calc_DSC" \notin called
    /\ dsc' = calc_DSC(truth, pred, classes)
    /\ called' = called \cup {"calc_DSC"}
    /\ UNCHANGED <<truth, pred, classes, sens, specs, overlayVars, runVars>>

CallSensitivity ==
    /\ "calc_Sensitivity" \notin called
    /\ sens' = calc_Sensitivity(truth, pred, classes)
    /\ called' = called \cup {"calc_Sensitivity"}
    /\ UNCHANGED <<truth, pred, classes, dsc, specs, overlayVars, runVars>>

CallSpecificity ==
    /\ "calc_Specificity" \notin called
    /\ specs' = calc_Specificity(truth, pred, classes)
    /\ called' = called \cup {"calc_Specificity"}
    /\ UNCHANGED <<truth, pred, classes, dsc, sens, overlayVars, runVars>>

NextMetrics == CallDSC \/ CallSensitivity \/ CallSpecificity

SpecMetrics == InitMetrics /\ [][NextMetrics]_vars

----------------------------------------------------------------------------
(* Overlay compositor (run_evaluation.py:68-92)                            *)

Min(S) == CHOOSE x \in S : \A y \in S : x <= y

Max(S) == CHOOSE x \in S : \A y \in S : x >= y

Range(f) == {f[v] : v \in DOMAIN f}

\* numpy.around / numpy.round of the non-negative value n/d: the nearest
\* integer, a tie going to the even neighbour.
RoundHalfEven(n, d) ==
    LET q == n \div d
        r == n % d
    IN  IF 2 * r < d THEN q
        ELSE IF 2 * r > d THEN q + 1
        ELSE IF q % 2 = 0 THEN q ELSE q + 1

\* (vol - np.min(vol)) / (np.max(vol) - np.min(vol)), element by element.
\* A volume of one single intensity divides 0 by 0 everywhere.
vol_scaled_of(v) ==
    LET lo == Min(Range(v.data))
        hi == Max(Range(v.data))
    IN  [shape |-> v.shape,
         data  |-> [x \in DOMAIN v.data |-> true_divide(v.data[x] - lo, hi - lo)]]

\* The values astype(np.uint8) can give for the elements of vol_scaled * 255.
\* The conversion of nan to an unsigned integer is undefined: any uint8.
NaNCastOutcomes(v) ==
    IF \E x \in DOMAIN v.data : vol_scaled_of(v).data[x].kind # "finite"
    THEN 0..UInt8Max ELSE {0}

\* np.around(vol_scaled * 255, decimals=0).astype(np.uint8)
vol_greyscale_of(v, nancast) ==
    LET scaled == vol_scaled_of(v)
    IN  [shape |-> v.shape,
         data  |-> [x \in DOMAIN v.data |->
                      IF scaled.data[x].kind = "finite"
                      THEN RoundHalfEven(UInt8Max * scaled.data[x].num, scaled.data[x].den)
                      ELSE nancast]]

\* np.stack([a, a, a], axis=-1)
stack3(a) ==
    LET shp == a.shape \o <<3>>
    IN  [shape |-> shp,
         data  |-> [x \in Indices4(shp) |-> a.data[<<x[1], x[2], x[3]>>]]]

\* seg_rgb_of without the assignment of line 79 (label 2 left uncoloured).
seg_rgb_of_NoLabel2(s) ==
    LET shp == <<s.shape[1], s.shape[2], s.shape[3], 3>>
    IN  [shape |-> shp,
         data  |-> [x \in Indices4(shp) |->
                      IF s.data[<<x[1], x[2], x[3]>>] = 1 THEN <<0, 0, 255>>[x[4]]
                      ELSE IF s.data[<<x[1], x[2], x[3]>>] = 3 THEN <<255, 0, 0>>[x[4]]
                      ELSE 0]]

\* np.zeros(shape + 3 channels) followed by the three masked assignments of
\* lines 78-80, in their order.
seg_rgb_of(s) ==
    LET shp   == <<s.shape[1], s.shape[2], s.shape[3], 3>>
        zeros == [x \in Indices4(shp) |-> 0]
        set(a, label, color) ==
            [x \in DOMAIN a |->
                IF s.data[<<x[1], x[2], x[3]>>] = label THEN color[x[4]] ELSE a[x]]
        a1 == set(zeros, 1, <<0, 0, 255>>)
        a2 == set(a1, 2, <<0, 0, 255>>)
        a3 == set(a2, 3, <<255, 0, 0>>)
    IN  [shape |-> shp, data |-> a3]

\* segbin_of with np.greater_equal in place of np.greater.
segbin_of_GreaterEqual(s) ==
    [shape |-> s.shape, data |-> [x \in DOMAIN s.data |-> s.data[x] >= 0]]

\* np.greater(seg, 0)
segbin_of(s) == [shape |-> s.shape, data |-> [x \in DOMAIN s.data |-> s.data[x] > 0]]

\* Greyscale values g for which the float64 product (1 - alpha) * g lies just
\* below k + 0.5 although 0.7 * g = k + 0.5 exactly; np.round then gives k.
\* For every other operand pair the float64 sum equals the exact value.
BelowHalf == {45, 85, 165, 175}

\* np.round(alpha * c + (1 - alpha) * g).astype(np.uint8), one element
blend(c, g) ==
    LET n == AlphaTenths * c + (10 - AlphaTenths) * g
    IN  IF c = 0 /\ g \in BelowHalf THEN n \div 10 ELSE RoundHalfEven(n, 10)

\* np.where(repeated_segbin, blended, np.round(vol_rgb))
overlay_segmentation(v, s, grey) ==
    LET vol_rgb == stack3(grey)
        seg_rgb == seg_rgb_of(s)
        repeated_segbin == stack3(segbin_of(s))
    IN  [shape |-> repeated_segbin.shape,
         data  |-> [x \in DOMAIN repeated_segbin.data |->
                      IF repeated_segbin.data[x]
                      THEN blend(seg_rgb.data[x], vol_rgb.data[x])
                      ELSE vol_rgb.data[x]]]

Intensities == 0..MaxIntensity

SegLabels == 0..MaxSegLabel

InitOverlay ==
    /\ \E shp \in Shapes(MaxOverlayVoxels) :
          /\ vol \in VolumesOf(shp, Intensities)
          /\ seg \in VolumesOf(shp, SegLabels)
    /\ vol_greyscale = IdleVolume /\ vol_overlayed = IdleRGB
    /\ overlayed = FALSE
    /\ IdleMetrics /\ IdleRun

CallOverlay ==
    /\ ~overlayed
    /\ \E nancast \in NaNCastOutcomes(vol) :
          /\ vol_greyscale' = vol_greyscale_of(vol, nancast)
          /\ vol_overlayed' = overlay_segmentation(vol, seg, vol_greyscale')
    /\ overlayed' = TRUE
    /\ UNCHANGED <<vol, seg, metricVars, runVars>>

NextOverlay == CallOverlay

SpecOverlay == InitOverlay /\ [][NextOverlay]_vars

----------------------------------------------------------------------------
(* Run evaluation (run_evaluation.py:149-178)                              *)

SampleIds == 1..MaxSamples

\* All listings of the set S, in any order (the order of a directory listing).
Listings(S) ==
    {l \in UNION {[1..n -> S] : n \in {Cardinality(S)}} :
        \A a, b \in DOMAIN l : a # b => l[a] # l[b]}

RECURSIVE Insert(_, _)
Insert(x, l) ==
    IF l = <<>> THEN <<x>>
    ELSE IF x <= Head(l) THEN <<x>> \o l
    ELSE <<Head(l)>> \o Insert(x, Tail(l))

\* list.sort(): ascending order
RECURSIVE sort(_)
sort(l) == IF l = <<>> THEN <<>> ELSE Insert(Head(l), sort(Tail(l)))

InitRun ==
    /\ files \in SUBSET SampleIds
    /\ sample_list = <<>> /\ it = 0 /\ index = 0
    /\ loaded = <<>> /\ stdout = <<>> /\ gifs = {}
    /\ pc = "get_indiceslist"
    /\ IdleMetrics /\ IdleOverlay

\* line 157: sample_list = data_io.get_indiceslist()
GetIndicesList ==
    /\ pc = "get_indiceslist"
    /\ sample_list' \in Listings(files)
    /\ pc' = "sort"
    /\ UNCHANGED <<files, it, index, loaded, stdout, gifs, metricVars, overlayVars>>

\* line 158: sample_list.sort()
SortSampleList ==
    /\ pc = "sort"
    /\ sample_list' = sort(sample_list)
    /\ pc' = "for"
    /\ UNCHANGED <<files, it, index, loaded, stdout, gifs, metricVars, overlayVars>>

\* line 161: for index in sample_list
ForNext ==
    /\ pc = "for"
    /\ IF it < Len(sample_list)
       THEN /\ index' = sample_list[it + 1]
            /\ it' = it + 1
            /\ pc' = "sample_loader"
       ELSE /\ pc' = "done"
            /\ UNCHANGED <<it, index>>
    /\ UNCHANGED <<files, sample_list, loaded, stdout, gifs, metricVars, overlayVars>>

\* lines 163-167: load the sample, take its ground truth and prediction
SampleLoader ==
    /\ pc = "sample_loader"
    /\ loaded' = Append(loaded, index)
    /\ \E shp \in Shapes(MaxRunVoxels) :
          /\ truth' \in VolumesOf(shp, Labels)
          /\ pred' \in VolumesOf(shp, Labels)
    /\ pc' = "calc_DSC"
    /\ UNCHANGED <<files, sample_list, it, index, stdout, gifs,
                   classes, dsc, sens, specs, called, overlayVars>>

\* lines 169-170
ScoreDSC ==
    /\ pc = "calc_DSC"
    /\ dsc' = calc_DSC(truth, pred, RunClasses)
    /\ stdout' = Append(stdout, dsc')
    /\ pc' = "calc_Sensitivity"
    /\ UNCHANGED <<files, sample_list, it, index, loaded, gifs,
                   truth, pred, classes, sens, specs, called, overlayVars>>

\* lines 171-172
ScoreSensitivity ==
    /\ pc = "calc_Sensitivity"
    /\ sens' = calc_Sensitivity(truth, pred, RunClasses)
    /\ stdout' = Append(stdout, sens')
    /\ pc' = "calc_Specificity"
    /\ UNCHANGED <<files, sample_list, it, index, loaded, gifs,
                   truth, pred, classes, dsc, specs, called, overlayVars>>

\* lines 173-176: the call of visualize_evaluation is commented out
ScoreSpecificity ==
    /\ pc = "calc_Specificity"
    /\ specs' = calc_Specificity(truth, pred, RunClasses)
    /\ stdout' = Append(stdout, specs')
    /\ pc' = "break"
    /\ UNCHANGED <<files, sample_list, it, index, loaded, gifs,
                   truth, pred, classes, dsc, sens, called, overlayVars>>

\* The loop body falling through to the next iteration (no break).
AfterBody_NoBreak == "for"

\* Where control goes from line 178.
AfterBody == "done"

\* line 178: break
Break ==
    /\ pc = "break"
    /\ pc' = AfterBody
    /\ UNCHANGED <<files, sample_list, it, index, loaded, stdout, gifs,
                   metricVars, overlayVars>>

NextRun ==
    \/ GetIndicesList
    \/ SortSampleList
    \/ ForNext
    \/ SampleLoader
    \/ ScoreDSC
    \/ ScoreSensitivity
    \/ ScoreSpecificity
    \/ Break

SpecRun == InitRun /\ [][NextRun]_vars

\* The script is one sequential thread: a step that can be taken is taken.
SpecRunFair == SpecRun /\ WF_vars(NextRun)

----------------------------------------------------------------------------
(* Properties of the score calculations, checked under SpecMetrics         *)

ClassIndices == 0..(classes - 1)

AllCalled == called = {"calc_DSC", "calc_Sensitivity", "calc_Specificity"}

Voxels == DOMAIN truth.data

NumTruth(i) == Cardinality({v \in Voxels : truth.data[v] = i})

NumPred(i) == Cardinality({v \in Voxels : pred.data[v] = i})

NumBoth(i) == Cardinality({v \in Voxels : truth.data[v] = i /\ pred.data[v] = i})

NumNotTruth(i) == Cardinality({v \in Voxels : truth.data[v] # i})

NumNeither(i) == Cardinality({v \in Voxels : truth.data[v] # i /\ pred.data[v] # i})

\* f is the float a / b, for b > 0
IsQuotient(f, a, b) == f.kind = "finite" /\ f.num * b = a * f.den

\* f is a number of the closed interval [0, 1]
InUnitInterval(f) == f.kind = "finite" /\ 0 <= f.num /\ f.num <= f.den

\* C1: calc_DSC returns, for every class index i, 2*|pred=i and truth=i| /
\* (|pred=i| + |truth=i|), and exactly 0 where that denominator is 0.
C1_DiceAsSpecified ==
    "calc_DSC" \in called =>
        \A i \in ClassIndices :
            IF NumPred(i) + NumTruth(i) = 0
            THEN dsc[i + 1] = Zero
            ELSE IsQuotient(dsc[i + 1], 2 * NumBoth(i), NumPred(i) + NumTruth(i))

\* C2: calc_Sensitivity returns, for every class index i, |pred=i and
\* truth=i| / |truth=i|, and exactly 0 where truth has no voxel labelled i.
C2_SensitivityAsSpecified ==
    "calc_Sensitivity" \in called =>
        \A i \in ClassIndices :
            IF NumTruth(i) = 0
            THEN sens[i + 1] = Zero
            ELSE IsQuotient(sens[i + 1], NumBoth(i), NumTruth(i))

\* C3: calc_Specificity returns, for every class index i, |pred#i and
\* truth#i| / |truth#i|, and exactly 0 where every voxel of truth is labelled i.
C3_SpecificityAsSpecified ==
    "calc_Specificity" \in called =>
        \A i \in ClassIndices :
            IF NumNotTruth(i) = 0
            THEN specs[i + 1] = Zero
            ELSE IsQuotient(specs[i + 1], NumNeither(i), NumNotTruth(i))

\* C4: each of the three results has exactly `classes` entries and every
\* entry is a number in [0, 1].
C4_VectorsInUnitInterval ==
    AllCalled =>
        \A r \in {dsc, sens, specs} :
            /\ Len(r) = classes
            /\ \A k \in 1..Len(r) : InUnitInterval(r[k])

\* C5 as stated: for truth = pred, every class that labels at least one voxel
\* scores 1.0 in all three metrics, a volume of one single label included.
C5_IdenticalAllOne ==
    (AllCalled /\ truth = pred) =>
        \A i \in ClassIndices :
            NumTruth(i) > 0 =>
                /\ dsc[i + 1] = One
                /\ sens[i + 1] = One
                /\ specs[i + 1] = One

\* C5 as amended: for truth = pred, every class i that labels at least one
\* voxel scores Dice 1.0 and Sensitivity 1.0, and scores Specificity 1.0 when
\* at least one voxel carries a label other than i; in a volume of the single
\* label i the Specificity of class i is not 1.0.
C5_IdenticalOneUnlessUniform ==
    (AllCalled /\ truth = pred) =>
        \A i \in ClassIndices :
            NumTruth(i) > 0 =>
                /\ dsc[i + 1] = One
                /\ sens[i + 1] = One
                /\ (NumNotTruth(i) > 0 => specs[i + 1] = One)
                /\ (NumNotTruth(i) = 0 => specs[i + 1] # One)

\* Witness of C5: identical volumes carrying two different labels below the
\* class count, all three scores computed.
C5_Witness ==
    /\ AllCalled
    /\ truth = pred
    /\ \E i, j \in ClassIndices : i # j /\ NumTruth(i) > 0 /\ NumTruth(j) > 0

\* C6: for a class i absent from truth, Sensitivity is 0.0, and Specificity
\* is 1.0 if i is absent from pred too and strictly below 1.0 otherwise.
C6_AbsentFromTruth ==
    AllCalled =>
        \A i \in ClassIndices :
            NumTruth(i) = 0 =>
                /\ sens[i + 1] = Zero
                /\ IF NumPred(i) = 0
                   THEN specs[i + 1] = One
                   ELSE specs[i + 1].kind = "finite" /\ specs[i + 1].num < specs[i + 1].den

\* C7: when no label occurs in both truth and pred, Dice is 0.0 at every
\* class index.
C7_DisjointDiceZero ==
    ("calc_DSC" \in called /\ Range(truth.data) \cap Range(pred.data) = {}) =>
        \A i \in ClassIndices : dsc[i + 1] = Zero

----------------------------------------------------------------------------
(* Properties of the overlay compositor, checked under SpecOverlay         *)

Abs(x) == IF x < 0 THEN -x ELSE x

\* k is an integer nearest to n / d, for d > 0
IsNearest(k, n, d) == 2 * Abs(k * d - n) <= d

ColorOfLabel(label) ==
    IF label \in {1, 2} THEN <<0, 0, 255>>
    ELSE IF label = 3 THEN <<255, 0, 0>>
    ELSE <<0, 0, 0>>

\* C8: the result has the shape of the input followed by an axis of size 3,
\* and at every voxel labelled 0 all three channels equal the voxel's
\* greyscale value, which is the intensity min/max-normalised to 0..255.
C8_BackgroundKeepsGreyscale ==
    overlayed =>
        LET lo == Min(Range(vol.data))
            hi == Max(Range(vol.data))
        IN  /\ vol_overlayed.shape = vol.shape \o <<3>>
            /\ DOMAIN vol_overlayed.data = Indices4(vol.shape \o <<3>>)
            /\ \A v \in DOMAIN seg.data :
                  seg.data[v] = 0 =>
                      \A c \in 1..3 :
                          vol_overlayed.data[v \o <<c>>] = vol_greyscale.data[v]
            /\ \A v \in DOMAIN vol.data :
                  /\ vol_greyscale.data[v] \in 0..UInt8Max
                  /\ hi # lo =>
                        IsNearest(vol_greyscale.data[v],
                                  UInt8Max * (vol.data[v] - lo), hi - lo)

\* Witness of C8: a volume of two intensities in which the brightest voxel is
\* background and keeps its grey on all three channels, next to a labelled
\* voxel.
C8_Witness ==
    /\ overlayed
    /\ \E v, w \in DOMAIN seg.data :
          /\ vol.data[v] > vol.data[w]
          /\ seg.data[v] = 0
          /\ vol_greyscale.data[v] = UInt8Max
          /\ \A c \in 1..3 : vol_overlayed.data[v \o <<c>>] = UInt8Max
          /\ seg.data[w] # 0

\* C9: at every voxel with a non-zero label each channel is
\* round(0.3 * color + 0.7 * greyscale), color being blue for labels 1 and 2,
\* red for label 3 and (0,0,0) for any other label.
C9_LabelledBlend ==
    overlayed =>
        \A v \in DOMAIN seg.data :
            seg.data[v] # 0 =>
                \A c \in 1..3 :
                    /\ vol_overlayed.data[v \o <<c>>] \in 0..UInt8Max
                    /\ IsNearest(vol_overlayed.data[v \o <<c>>],
                                 3 * ColorOfLabel(seg.data[v])[c]
                                     + 7 * vol_greyscale.data[v],
                                 10)

\* Witness of C9: a voxel with an unmapped label whose output is below its
\* greyscale value, next to a voxel coloured blue by label 2.
C9_Witness ==
    /\ overlayed
    /\ \E v, w \in DOMAIN seg.data :
          /\ seg.data[v] > 3
          /\ vol_greyscale.data[v] > 0
          /\ vol_overlayed.data[v \o <<1>>] < vol_greyscale.data[v]
          /\ seg.data[w] = 2
          /\ vol_overlayed.data[w \o <<3>>] > vol_greyscale.data[w]

----------------------------------------------------------------------------
(* Properties of the run, checked under SpecRunFair                        *)

Scores == <<calc_DSC(truth, pred, RunClasses),
            calc_Sensitivity(truth, pred, RunClasses),
            calc_Specificity(truth, pred, RunClasses)>>

\* At most the smallest sample is loaded, what is printed is a prefix of its
\* Dice, Sensitivity, Specificity vectors, and no GIF is written; at the end
\* of a run over a non-empty list all of it has happened.
RunInv ==
    /\ gifs = {}
    /\ Len(loaded) <= 1
    /\ loaded # <<>> => loaded[1] = Min(files)
    /\ Len(stdout) <= 3
    /\ \A k \in 1..Len(stdout) : loaded # <<>> /\ stdout[k] = Scores[k]
    /\ (pc = "done" /\ files # {}) =>
          /\ loaded = <<Min(files)>>
          /\ stdout = Scores
    /\ (pc = "done" /\ files = {}) => (loaded = <<>> /\ stdout = <<>>)

====
